---------------------------- MODULE Spec2Model ----------------------------
(***************************************************************************)
(* Model of the request-serving core of express-api-caching-rate-limit:    *)
(*   - LRUCache (src/src/lruCache.ts): TTL + LRU cache with statistics     *)
(*   - rateLimiter, DbQueue, inFlightFetches and the route handlers        *)
(*     (src/src/index.ts)                                                  *)
(*                                                                         *)
(* Time is Date.now() in milliseconds.  A JavaScript Map is a sequence of  *)
(* entries in insertion order (the order Map.keys() iterates in).          *)
(***************************************************************************)
EXTENDS Integers, Sequences, FiniteSets, TLC

(***************************************************************************)
(* Bounds of the model                                                     *)
(***************************************************************************)
MaxSizeOpt == 2
MaxTtlOpt == 2
MaxNow == 3
MaxGets == 2
MaxAllowed == 11
MaxJobs == 3
MaxRequests == 3
MaxClock == 61000

Keys == {1, 2, 3}
Values == {"v1"}
undefined == "undefined"

VARIABLES
    \* ---- LRUCache fields (lruCache.ts:13-17) and Date.now()
    maxSize, ttlMs, map, hits, misses, now,
    \* ---- observation of the last call made on the cache
    lastOp,
    \* ---- history variables of the cache (not program state)
    recency, setAt, clearedKeys, getHits, getMisses, scenario,
    \* ---- rateLimitMap (index.ts:46), the last rateLimiter call and the
    \*      timestamps of the requests allowed so far, per identity (history)
    rateLimitMap, lastCheck, allowedLog,
    \* ---- the "database", the in-flight registry and DbQueue (index.ts:94-142)
    mockUsers, inFlightFetches, queue, processing, running,
    \* ---- promises: settled[p] is the value promise p was resolved with;
    \*      waiting: the handlers suspended at "await fetchPromise";
    \*      microtasks: the handlers whose promise is resolved, about to resume
    settled, waiting, microtasks,
    \* ---- counters and the setInterval timer of the purge
    jobCount, admitted, nextPurge,
    \* ---- observation: the last response sent, the outcomes delivered to the
    \*      waiters of each promise, the jobs in the order they were started,
    \*      the jobs completed (history)
    lastResponse, delivered, startedLog, doneJobs

cacheVars == <<maxSize, ttlMs, map, hits, misses>>
cacheHist == <<recency, setAt, clearedKeys, getHits, getMisses, scenario>>
vars == <<maxSize, ttlMs, map, hits, misses, now, lastOp,
          recency, setAt, clearedKeys, getHits, getMisses, scenario,
          rateLimitMap, lastCheck, allowedLog,
          mockUsers, inFlightFetches, queue, processing, running,
          settled, waiting, microtasks, jobCount, admitted, nextPurge,
          lastResponse, delivered, startedLog, doneJobs>>

cacheAll == <<maxSize, ttlMs, map, hits, misses, lastOp,
              recency, setAt, clearedKeys, getHits, getMisses, scenario>>
rateVars == <<rateLimitMap, lastCheck, allowedLog>>
queueVars == <<queue, processing, running, jobCount, startedLog, doneJobs>>
promiseVars == <<settled, waiting, microtasks, delivered>>
pipeVars == <<mockUsers, inFlightFetches, queueVars, promiseVars,
              admitted, nextPurge, lastResponse>>

(***************************************************************************)
(* JavaScript Map<K, CacheEntry> as a sequence of [key, value, expiresAt]  *)
(***************************************************************************)
mapKeys(m) == {m[i].key : i \in 1..Len(m)}

mapHas(m, key) == key \in mapKeys(m)

mapIndex(m, key) == CHOOSE i \in 1..Len(m) : m[i].key = key

mapGet(m, key) == m[mapIndex(m, key)]

\* Map.delete: removes the entry, the others keep their relative order
mapDelete(m, key) == SelectSeq(m, LAMBDA e : e.key # key)

\* Map.set: an existing key keeps its position, a new key goes to the end
mapSet(m, key, value, expiresAt) ==
    LET e == [key |-> key, value |-> value, expiresAt |-> expiresAt]
    IN  IF mapHas(m, key)
        THEN [i \in 1..Len(m) |-> IF m[i].key = key THEN e ELSE m[i]]
        ELSE Append(m, e)

\* mutant: the most recently used key is taken as the victim
newestKey(m) == m[Len(m)].key

\* this.map.keys().next().value
oldestKey(m) == m[1].key

(***************************************************************************)
(* LRUCache methods.  c holds the fields map, hits and misses; each method *)
(* gives the fields after the call and the value returned (ret), at the    *)
(* current time.                                                           *)
(***************************************************************************)
Result(m, h, ms, r) == [map |-> m, hits |-> h, misses |-> ms, ret |-> r]

\* mutant: a live hit does not move the entry to the end
getNoTouch(c, key) ==
    IF ~mapHas(c.map, key)
    THEN Result(c.map, c.hits, c.misses + 1, undefined)
    ELSE LET entry == mapGet(c.map, key)
         IN  IF entry.expiresAt <= now
             THEN Result(mapDelete(c.map, key), c.hits, c.misses + 1, undefined)
             ELSE Result(c.map, c.hits + 1, c.misses, entry.value)

\* mutant: an entry is still live at now = expiresAt
getLateExpiry(c, key) ==
    IF ~mapHas(c.map, key)
    THEN Result(c.map, c.hits, c.misses + 1, undefined)
    ELSE LET entry == mapGet(c.map, key)
         IN  IF entry.expiresAt < now
             THEN Result(mapDelete(c.map, key), c.hits, c.misses + 1, undefined)
             ELSE Result(mapSet(mapDelete(c.map, key), key, entry.value, entry.expiresAt),
                         c.hits + 1, c.misses, entry.value)

get(c, key) ==
    IF ~mapHas(c.map, key)
    THEN Result(c.map, c.hits, c.misses + 1, undefined)
    ELSE LET entry == mapGet(c.map, key)
         IN  IF entry.expiresAt <= now
             THEN Result(mapDelete(c.map, key), c.hits, c.misses + 1, undefined)
             ELSE Result(mapSet(mapDelete(c.map, key), key, entry.value, entry.expiresAt),
                         c.hits + 1, c.misses, entry.value)

\* mutant: eviction only once the size is above the maximum
setLateEvict(c, key, value) ==
    LET expiresAt == now + ttlMs
        m1 == IF mapHas(c.map, key)
              THEN mapDelete(c.map, key)
              ELSE IF Len(c.map) > maxSize
                   THEN IF Len(c.map) > 0 THEN mapDelete(c.map, oldestKey(c.map)) ELSE c.map
                   ELSE c.map
    IN  Result(mapSet(m1, key, value, expiresAt), c.hits, c.misses, undefined)

set(c, key, value) ==
    LET expiresAt == now + ttlMs
        m1 == IF mapHas(c.map, key)
              THEN mapDelete(c.map, key)
              ELSE IF Len(c.map) >= maxSize
                   THEN IF Len(c.map) > 0 THEN mapDelete(c.map, oldestKey(c.map)) ELSE c.map
                   ELSE c.map
    IN  Result(mapSet(m1, key, value, expiresAt), c.hits, c.misses, undefined)

\* mutant: has counts a miss like get does
hasCounting(c, key) ==
    IF ~mapHas(c.map, key)
    THEN Result(c.map, c.hits, c.misses + 1, FALSE)
    ELSE IF mapGet(c.map, key).expiresAt <= now
         THEN Result(mapDelete(c.map, key), c.hits, c.misses + 1, FALSE)
         ELSE Result(c.map, c.hits, c.misses, TRUE)

has(c, key) ==
    IF ~mapHas(c.map, key)
    THEN Result(c.map, c.hits, c.misses, FALSE)
    ELSE IF mapGet(c.map, key).expiresAt <= now
         THEN Result(mapDelete(c.map, key), c.hits, c.misses, FALSE)
         ELSE Result(c.map, c.hits, c.misses, TRUE)

\* mutant: clear empties the map and keeps the counters
clearKeepStats(c) == Result(<<>>, c.hits, c.misses, undefined)

clear(c) == Result(<<>>, 0, 0, undefined)

\* mutant: an entry is purged only after its expiry time has passed
purgeStaleLate(c) ==
    Result(SelectSeq(c.map, LAMBDA e : ~(e.expiresAt < now)), c.hits, c.misses, undefined)

purgeStale(c) ==
    Result(SelectSeq(c.map, LAMBDA e : ~(e.expiresAt <= now)), c.hits, c.misses, undefined)

stats(c) == [hits |-> c.hits, misses |-> c.misses, size |-> Len(c.map)]

\* the cache as it is now
Cache == [map |-> map, hits |-> hits, misses |-> misses]

(***************************************************************************)
(* Rate limiter (index.ts:39-76)                                           *)
(***************************************************************************)
MAX_PER_MINUTE == 10
BURST_PER_10_SECONDS == 5
MINUTE_WINDOW_MS == 60000
BURST_WINDOW_MS == 10000

\* what a request shows of its sender: req.ip and the x-forwarded-for header
\* ("": missing)
Senders == {[ip |-> "a", xff |-> ""], [ip |-> "", xff |-> "a"], [ip |-> "", xff |-> ""]}

\* (req.ip || req.headers["x-forwarded-for"] || "unknown").toString()
clientIp(req) ==
    IF req.ip # "" THEN req.ip
    ELSE IF req.xff # "" THEN req.xff
    ELSE "unknown"

Identities == {clientIp(req) : req \in Senders}

emptyState == [last60s |-> <<>>, last10s |-> <<>>]

\* Map.set on rateLimitMap
rateSet(m, ip, state) ==
    [i \in DOMAIN m \cup {ip} |-> IF i = ip THEN state ELSE m[i]]

\* mutant: a request is denied only above the ceilings
rateLimiterOffByOne(req) ==
    LET ip == clientIp(req)
        state == IF ip \in DOMAIN rateLimitMap THEN rateLimitMap[ip] ELSE emptyState
        l60 == SelectSeq(state.last60s, LAMBDA t : now - t <= MINUTE_WINDOW_MS)
        l10 == SelectSeq(state.last10s, LAMBDA t : now - t <= BURST_WINDOW_MS)
    IN  IF Len(l60) > MAX_PER_MINUTE \/ Len(l10) > BURST_PER_10_SECONDS
        THEN [map |-> rateSet(rateLimitMap, ip, [last60s |-> l60, last10s |-> l10]),
              allowed |-> FALSE]
        ELSE [map |-> rateSet(rateLimitMap, ip,
                              [last60s |-> Append(l60, now), last10s |-> Append(l10, now)]),
              allowed |-> TRUE]

\* rateLimiter: the map after the call and whether next() was called
rateLimiter(req) ==
    LET ip == clientIp(req)
        state == IF ip \in DOMAIN rateLimitMap THEN rateLimitMap[ip] ELSE emptyState
        l60 == SelectSeq(state.last60s, LAMBDA t : now - t <= MINUTE_WINDOW_MS)
        l10 == SelectSeq(state.last10s, LAMBDA t : now - t <= BURST_WINDOW_MS)
    IN  IF Len(l60) >= MAX_PER_MINUTE \/ Len(l10) >= BURST_PER_10_SECONDS
        THEN [map |-> rateSet(rateLimitMap, ip, [last60s |-> l60, last10s |-> l10]),
              allowed |-> FALSE]
        ELSE [map |-> rateSet(rateLimitMap, ip,
                              [last60s |-> Append(l60, now), last10s |-> Append(l10, now)]),
              allowed |-> TRUE]

\* lastCheck: the identity of the last rateLimiter call and its verdict
Check(op, ip, allowed) == [op |-> op, ip |-> ip, allowed |-> allowed]

(***************************************************************************)
(* Settings, the mock database and the fetch queue (index.ts:6-9, 91-154)  *)
(***************************************************************************)
CACHE_TTL_MS == 60000
CACHE_MAX_SIZE == 1000
PURGE_INTERVAL_MS == 10000
DB_LATENCY_MS == 200

null == "null"
pending == "pending"

\* the ids requests ask for; mockUsers holds users 1 and 2 at start, not 4
UserIds == {1, 2, 4}

mockUsersInit ==
    [id \in UserIds |-> IF id = 1 THEN "John Doe"
                        ELSE IF id = 2 THEN "Jane Smith"
                        ELSE null]

\* Number(req.params.id) for the params sent: 0 and the ids above
RawIds == {0} \cup UserIds

\* mutant: every id is taken as valid
parseUserIdLax(raw) == [valid |-> TRUE, id |-> raw]

\* parseUserId: valid is FALSE where the source returns null (after a 400)
parseUserId(raw) == [valid |-> raw > 0, id |-> raw]

\* a response: route, HTTP status, the "source" field and the user sent (if any)
Response(route, status, source, data) ==
    [route |-> route, status |-> status, source |-> source, data |-> data]

\* DbJob: seq is its position in the order of the enqueue calls and names the
\* promise its resolve/reject belong to
Job(seq, userId) == [seq |-> seq, userId |-> userId]

\* mutant: the job is taken from the tail
pop(q) == [job |-> q[Len(q)], rest |-> SubSeq(q, 1, Len(q) - 1)]

\* this.queue.shift()
shift(q) == [job |-> Head(q), rest |-> Tail(q)]

Timer(job) == [job |-> job, due |-> now + DB_LATENCY_MS]

QueueState(q, p, r, started) ==
    [queue |-> q, processing |-> p, running |-> r, started |-> started]

\* processNext up to its first await: nothing if a loop is active; otherwise
\* the head job is taken and its 200 ms timer started
processNext(qs) ==
    IF qs.processing
    THEN qs
    ELSE IF Len(qs.queue) > 0
         THEN LET d == shift(qs.queue)
              IN  QueueState(d.rest, TRUE, qs.running \cup {Timer(d.job)},
                             Append(qs.started, d.job.seq))
         ELSE QueueState(qs.queue, FALSE, qs.running, qs.started)

\* DbQueue.enqueue
enqueue(job) ==
    processNext(QueueState(Append(queue, job), processing, running, startedLog))

\* mutant: the loop ends after one job, whatever is queued
loopStop(t) == QueueState(queue, FALSE, running \ {t}, startedLog)

\* processNext after job.resolve: the loop takes the next job or ends
loopOn(t) ==
    IF Len(queue) > 0
    THEN LET d == shift(queue)
         IN  QueueState(d.rest, TRUE, (running \ {t}) \cup {Timer(d.job)},
                        Append(startedLog, d.job.seq))
    ELSE QueueState(queue, FALSE, running \ {t}, startedLog)

\* mutant: every lookup starts a fetch of its own
inFlightGetNone(id) == [found |-> FALSE, promise |-> 0]

\* inFlightFetches.get(id)
inFlightGet(id) ==
    IF id \in DOMAIN inFlightFetches
    THEN [found |-> TRUE, promise |-> inFlightFetches[id]]
    ELSE [found |-> FALSE, promise |-> 0]

\* mutant: the promise of a new fetch is not registered
inFlightSkip(id, promise) == inFlightFetches

\* inFlightFetches.set(id, promise)
inFlightSet(id, promise) ==
    [i \in DOMAIN inFlightFetches \cup {id} |->
        IF i = id THEN promise ELSE inFlightFetches[i]]

\* mutant: the entry is left in the registry
inFlightKeep(id) == inFlightFetches

\* inFlightFetches.delete(id)
inFlightDelete(id) ==
    [i \in DOMAIN inFlightFetches \ {id} |-> inFlightFetches[i]]

\* a handler suspended at "await fetchPromise", with its locals
Handler(id, fetchPromise) == [id |-> id, fetchPromise |-> fetchPromise]

\* mutant: the value is stored whether the key is cached or not
cacheAlways(c, key, value) == set(has(c, key), key, value)

\* if (!userCache.has(id)) userCache.set(id, user)  (index.ts:196-198, 227-229)
cacheIfAbsent(c, key, value) ==
    LET cached == has(c, key)
    IN  IF cached.ret THEN cached ELSE set(cached, key, value)

\* mutant: the resumed handler never writes to the cache
storeFetchedNever(c, id, user) == c

\* mutant: whatever the fetch gave is cached, null included
storeFetchedAlways(c, id, user) == cacheIfAbsent(c, id, user)

\* the cache after the resumed handler of GET /users/:id (index.ts:188-198):
\* nothing is touched when the fetch gave null
storeFetched(c, id, user) ==
    IF user = null THEN c ELSE cacheIfAbsent(c, id, user)

\* mutant: a waiter that finds the key cached answers with source "cache"
fetchedResponseBySource(user, cached) ==
    IF user = null
    THEN Response("GET /users/:id", 404, "", "")
    ELSE Response("GET /users/:id", 200, IF cached THEN "cache" ELSE "database", user)

\* the response of GET /users/:id after the await (index.ts:188-203); cached
\* is what userCache.has(id) returned
fetchedResponse(user, cached) ==
    IF user = null
    THEN Response("GET /users/:id", 404, "", "")
    ELSE Response("GET /users/:id", 200, "database", user)

(***************************************************************************)
(* History kept beside the cache                                           *)
(*   recency        the keys passed to set or found live by get, least     *)
(*                  recently used first (of the keys that have an entry)   *)
(*   setAt[k]       Date.now() of the last set(k), -1: never or the entry  *)
(*                  is gone                                                *)
(*   clearedKeys    keys that had an entry when clear was called and have  *)
(*                  not been passed to set since                           *)
(*   getHits        get calls since construction / the last clear that     *)
(*                  returned a value;  getMisses: those that returned      *)
(*                  undefined                                              *)
(*   scenario       the calls made so far while they follow one of the     *)
(*                  Scripts below, Off afterwards                          *)
(***************************************************************************)
Off == <<[op |-> "off", key |-> 0]>>

Ev(op, key) == [op |-> op, key |-> key]

\* set x, set y, get x, set z
ScriptTwo(x, y, z) == <<Ev("set", x), Ev("set", y), Ev("get", x), Ev("set", z)>>

\* set x, set y, set z, get x, set z
ScriptThree(x, y, z) ==
    <<Ev("set", x), Ev("set", y), Ev("set", z), Ev("get", x), Ev("set", z)>>

Distinct3 == {t \in Keys \X Keys \X Keys : t[1] # t[2] /\ t[1] # t[3] /\ t[2] # t[3]}

Scripts == {ScriptTwo(t[1], t[2], t[3]) : t \in Distinct3}
              \cup {ScriptThree(t[1], t[2], t[3]) : t \in Distinct3}

IsPrefix(h, s) == Len(h) <= Len(s) /\ \A i \in 1..Len(h) : h[i] = s[i]

Follow(h, e) ==
    IF h # Off /\ \E s \in Scripts : IsPrefix(Append(h, e), s)
    THEN Append(h, e)
    ELSE Off

\* lastOp: the call, its key, the value it returned and, for get, the
\* time since the set that stored the entry held for the key (-1: none held)
Op(op, key, ret, age) == [op |-> op, key |-> key, ret |-> ret, age |-> age]

Age(key) == IF setAt[key] = -1 THEN -1 ELSE now - setAt[key]

Touch(rec, key) == Append(SelectSeq(rec, LAMBDA k : k # key), key)

\* the fields of the cache after a call with result r
Apply(r) ==
    /\ map' = r.map
    /\ hits' = r.hits
    /\ misses' = r.misses
    /\ UNCHANGED <<maxSize, ttlMs>>

\* recency and setAt are kept for the keys the cache holds an entry for
Remember(m, rec, sa) ==
    /\ recency' = SelectSeq(rec, LAMBDA k : mapHas(m, k))
    /\ setAt' = [k \in Keys |-> IF mapHas(m, k) THEN sa[k] ELSE -1]

(***************************************************************************)
(* Calls on a cache under test: any caller, any order, any time            *)
(***************************************************************************)
CallGet(key) ==
    /\ hits + misses < MaxGets
    /\ LET r == get(Cache, key)
       IN  /\ Apply(r)
           /\ lastOp' = Op("get", key, r.ret, Age(key))
           /\ Remember(r.map,
                       IF r.ret # undefined THEN Touch(recency, key) ELSE recency,
                       setAt)
           /\ getHits' = IF r.ret # undefined THEN getHits + 1 ELSE getHits
           /\ getMisses' = IF r.ret = undefined THEN getMisses + 1 ELSE getMisses
    /\ scenario' = Follow(scenario, Ev("get", key))
    /\ UNCHANGED <<now, clearedKeys, rateVars, pipeVars>>

CallSet(key, value) ==
    /\ LET r == set(Cache, key, value)
       IN  /\ Apply(r)
           /\ Remember(r.map, Touch(recency, key), [setAt EXCEPT ![key] = now])
    /\ lastOp' = Op("set", key, undefined, -1)
    /\ clearedKeys' = clearedKeys \ {key}
    /\ scenario' = Follow(scenario, Ev("set", key))
    /\ UNCHANGED <<now, getHits, getMisses, rateVars, pipeVars>>

CallHas(key) ==
    /\ LET r == has(Cache, key)
       IN  /\ Apply(r)
           /\ Remember(r.map, recency, setAt)
           /\ lastOp' = Op("has", key, r.ret, -1)
    /\ scenario' = Off
    /\ UNCHANGED <<now, clearedKeys, getHits, getMisses, rateVars, pipeVars>>

CallClear ==
    /\ LET r == clear(Cache)
       IN  /\ Apply(r)
           /\ Remember(r.map, recency, setAt)
    /\ lastOp' = Op("clear", 0, undefined, -1)
    /\ clearedKeys' = clearedKeys \cup mapKeys(map)
    /\ getHits' = 0
    /\ getMisses' = 0
    /\ scenario' = Off
    /\ UNCHANGED <<now, rateVars, pipeVars>>

CallPurgeStale ==
    /\ LET r == purgeStale(Cache)
       IN  /\ Apply(r)
           /\ Remember(r.map, recency, setAt)
    /\ lastOp' = Op("purgeStale", 0, undefined, -1)
    /\ scenario' = Off
    /\ UNCHANGED <<now, clearedKeys, getHits, getMisses, rateVars, pipeVars>>

\* Date.now() moves on by one millisecond
CacheTick ==
    /\ now < MaxNow
    /\ now' = now + 1
    /\ lastOp' = Op("tick", 0, undefined, -1)
    /\ UNCHANGED cacheVars
    /\ UNCHANGED cacheHist
    /\ UNCHANGED rateVars
    /\ UNCHANGED pipeVars

\* the server as it starts: nothing fetched, queued or awaited
InitPipeVars ==
    /\ mockUsers = mockUsersInit
    /\ inFlightFetches = <<>>
    /\ queue = <<>>
    /\ processing = FALSE
    /\ running = {}
    /\ settled = [p \in 1..MaxJobs |-> pending]
    /\ waiting = <<>>
    /\ microtasks = <<>>
    /\ jobCount = 0
    /\ admitted = 0
    /\ nextPurge = PURGE_INTERVAL_MS
    /\ lastResponse = Response("start", 0, "", "")
    /\ delivered = [p \in 1..MaxJobs |-> <<>>]
    /\ startedLog = <<>>
    /\ doneJobs = {}

\* the cache as constructed, with its history
InitCacheVars ==
    /\ map = <<>>
    /\ hits = 0
    /\ misses = 0
    /\ now = 0
    /\ lastOp = Op("new", 0, undefined, -1)
    /\ recency = <<>>
    /\ setAt = [k \in Keys |-> -1]
    /\ clearedKeys = {}
    /\ getHits = 0
    /\ getMisses = 0
    /\ scenario = <<>>

InitRateVars ==
    /\ rateLimitMap = <<>>
    /\ lastCheck = Check("new", "", FALSE)
    /\ allowedLog = [ip \in Identities |-> <<>>]

\* new LRUCache({maxSize, ttlMs}), both positive
InitCache ==
    /\ maxSize \in 1..MaxSizeOpt
    /\ ttlMs \in 1..MaxTtlOpt
    /\ InitCacheVars
    /\ InitRateVars
    /\ InitPipeVars

NextCache ==
    \/ \E key \in Keys : CallGet(key)
    \/ \E key \in Keys, value \in Values : CallSet(key, value)
    \/ \E key \in Keys : CallHas(key)
    \/ CallClear
    \/ CallPurgeStale
    \/ CacheTick

SpecCache == InitCache /\ [][NextCache]_vars

(***************************************************************************)
(* The rate limiter alone: requests of any sender at any time              *)
(***************************************************************************)
\* the times at which requests arrive: on and just past the edges of both windows
ArrivalTimes ==
    {0, BURST_WINDOW_MS, 2 * BURST_WINDOW_MS,
     MINUTE_WINDOW_MS, MINUTE_WINDOW_MS + BURST_WINDOW_MS}

Sum(f) == LET RECURSIVE S(_)
              S(D) == IF D = {} THEN 0
                      ELSE LET x == CHOOSE x \in D : TRUE IN f[x] + S(D \ {x})
          IN  S(DOMAIN f)

TotalAllowed == Sum([ip \in Identities |-> Len(allowedLog[ip])])

CallRateLimiter(req) ==
    /\ LET r == rateLimiter(req)
           ip == clientIp(req)
       IN  /\ r.allowed => TotalAllowed < MaxAllowed
           /\ rateLimitMap' = r.map
           /\ lastCheck' = Check("check", ip, r.allowed)
           /\ allowedLog' = IF r.allowed
                            THEN [allowedLog EXCEPT ![ip] = Append(@, now)]
                            ELSE allowedLog
    /\ UNCHANGED <<now, cacheAll, pipeVars>>

\* Date.now() moves on to a later arrival time
RateTick ==
    /\ \E t \in ArrivalTimes : t > now /\ now' = t
    /\ lastCheck' = Check("tick", "", FALSE)
    /\ UNCHANGED <<rateLimitMap, allowedLog, cacheAll, pipeVars>>

NextRate ==
    \/ \E req \in Senders : CallRateLimiter(req)
    \/ RateTick

InitRate ==
    /\ maxSize = CACHE_MAX_SIZE
    /\ ttlMs = CACHE_TTL_MS
    /\ InitCacheVars
    /\ InitRateVars
    /\ InitPipeVars

SpecRate == InitRate /\ [][NextRate]_vars

(***************************************************************************)
(* The server: requests pass rateLimiter, then their route's handler.      *)
(* A handler runs to its first await in one step; the handlers that await  *)
(* a promise resume one by one, as microtasks, before anything else runs.  *)
(***************************************************************************)
PipeSenders == {[ip |-> "a", xff |-> ""]}

\* POST bodies: id 0 stands for a missing id, "" for a missing name or email
PostBodies == {[id |-> id, name |-> name] : id \in {0, 1, 4}, name \in {"", "New User"}}

Idle == microtasks = <<>>

\* the middleware: the rate limit map after the call; an allowed request counts
\* against the bound on the requests of a run
Admit(r) ==
    /\ Idle
    /\ rateLimitMap' = r.map
    /\ admitted' = IF r.allowed THEN admitted + 1 ELSE admitted
    /\ r.allowed => admitted < MaxRequests
    /\ UNCHANGED <<lastCheck, allowedLog>>

Reply(resp) == lastResponse' = resp

\* no response: a step of a timer or of the clock
Internal == Response("internal", 0, "", "")

TooMany(route) == Response(route, 429, "", "")

CacheFrame == UNCHANGED <<maxSize, ttlMs, lastOp, cacheHist>>

CacheSame == UNCHANGED <<map, hits, misses>>

CacheBecomes(c) ==
    /\ map' = c.map
    /\ hits' = c.hits
    /\ misses' = c.misses

QueueBecomes(qs) ==
    /\ queue' = qs.queue
    /\ processing' = qs.processing
    /\ running' = qs.running
    /\ startedLog' = qs.started

\* GET /users/:id up to its response or its await (index.ts:161-183)
GetUser(req, raw) ==
    LET r == rateLimiter(req)
        parsed == parseUserId(raw)
        id == parsed.id
        c == get(Cache, id)
        inFlight == inFlightGet(id)
    IN  /\ Admit(r)
        /\ CacheFrame
        /\ UNCHANGED <<now, mockUsers, nextPurge, settled, microtasks, delivered, doneJobs>>
        /\ IF ~r.allowed
           THEN /\ Reply(TooMany("GET /users/:id"))
                /\ CacheSame
                /\ UNCHANGED <<inFlightFetches, queue, processing, running, startedLog,
                               jobCount, waiting>>
           ELSE IF ~parsed.valid
           THEN /\ Reply(Response("GET /users/:id", 400, "", ""))
                /\ CacheSame
                /\ UNCHANGED <<inFlightFetches, queue, processing, running, startedLog,
                               jobCount, waiting>>
           ELSE /\ CacheBecomes(c)
                /\ IF c.ret # undefined
                   THEN /\ Reply(Response("GET /users/:id", 200, "cache", c.ret))
                        /\ UNCHANGED <<inFlightFetches, queue, processing, running,
                                       startedLog, jobCount, waiting>>
                   ELSE IF inFlight.found
                   THEN /\ waiting' = Append(waiting, Handler(id, inFlight.promise))
                        /\ Reply(Response("GET /users/:id", 0, "await", ""))
                        /\ UNCHANGED <<inFlightFetches, queue, processing, running,
                                       startedLog, jobCount>>
                   ELSE /\ jobCount < MaxJobs
                        /\ jobCount' = jobCount + 1
                        /\ QueueBecomes(enqueue(Job(jobCount + 1, id)))
                        /\ inFlightFetches' = inFlightSet(id, jobCount + 1)
                        /\ waiting' = Append(waiting, Handler(id, jobCount + 1))
                        /\ Reply(Response("GET /users/:id", 0, "await", ""))

\* the 200 ms timer of a job fires, at its due time or later: the job resolves
\* its promise with the user read now, the loop goes on, and the awaiting
\* handlers become microtasks (index.ts:113-125)
TimerFires(t) ==
    /\ Idle
    /\ t \in running
    /\ now' = IF t.due > now THEN t.due ELSE now
    /\ LET user == mockUsers[t.job.userId]
           p == t.job.seq
       IN  /\ settled' = [settled EXCEPT ![p] = user]
           /\ microtasks' = SelectSeq(waiting, LAMBDA h : h.fetchPromise = p)
           /\ waiting' = SelectSeq(waiting, LAMBDA h : h.fetchPromise # p)
           /\ doneJobs' = doneJobs \cup {p}
    /\ QueueBecomes(loopOn(t))
    /\ Reply(Internal)
    /\ CacheFrame
    /\ CacheSame
    /\ UNCHANGED <<rateVars, mockUsers, inFlightFetches, jobCount, admitted,
                   nextPurge, delivered>>

\* GET /users/:id after "await fetchPromise" (index.ts:183-204)
ResumeHandler ==
    /\ microtasks # <<>>
    /\ LET h == Head(microtasks)
           user == settled[h.fetchPromise]
           cached == has(Cache, h.id)
           resp == fetchedResponse(user, cached.ret)
       IN  /\ microtasks' = Tail(microtasks)
           /\ inFlightFetches' = inFlightDelete(h.id)
           /\ CacheBecomes(storeFetched(Cache, h.id, user))
           /\ Reply(resp)
           /\ delivered' = [delivered EXCEPT ![h.fetchPromise] = Append(@, resp)]
    /\ CacheFrame
    /\ UNCHANGED <<now, rateVars, mockUsers, queueVars, settled, waiting, admitted,
                   nextPurge>>

\* POST /users (index.ts:207-235)
CreateUser(req, body) ==
    LET r == rateLimiter(req)
    IN  /\ Admit(r)
        /\ CacheFrame
        /\ UNCHANGED <<now, inFlightFetches, queueVars, promiseVars, nextPurge>>
        /\ IF ~r.allowed
           THEN /\ Reply(TooMany("POST /users"))
                /\ CacheSame
                /\ UNCHANGED mockUsers
           ELSE IF body.id = 0 \/ body.name = ""
           THEN /\ Reply(Response("POST /users", 400, "", ""))
                /\ CacheSame
                /\ UNCHANGED mockUsers
           ELSE IF mockUsers[body.id] # null
           THEN /\ Reply(Response("POST /users", 409, "", ""))
                /\ CacheSame
                /\ UNCHANGED mockUsers
           ELSE /\ mockUsers' = [mockUsers EXCEPT ![body.id] = body.name]
                /\ CacheBecomes(cacheIfAbsent(Cache, body.id, body.name))
                /\ Reply(Response("POST /users", 201, "", body.name))

\* DELETE /cache (index.ts:238-243)
ClearCache(req) ==
    LET r == rateLimiter(req)
    IN  /\ Admit(r)
        /\ CacheFrame
        /\ UNCHANGED <<now, mockUsers, inFlightFetches, queueVars, promiseVars, nextPurge>>
        /\ IF ~r.allowed
           THEN /\ Reply(TooMany("DELETE /cache"))
                /\ CacheSame
           ELSE /\ CacheBecomes(clear(Cache))
                /\ Reply(Response("DELETE /cache", 200, "", ""))

\* GET /cache-status (index.ts:246-265): reads the statistics
CacheStatus(req) ==
    LET r == rateLimiter(req)
    IN  /\ Admit(r)
        /\ CacheFrame
        /\ CacheSame
        /\ UNCHANGED <<now, mockUsers, inFlightFetches, queueVars, promiseVars, nextPurge>>
        /\ IF ~r.allowed
           THEN Reply(TooMany("GET /cache-status"))
           ELSE Reply([Response("GET /cache-status", 200, "", "") EXCEPT
                          !.source = stats(Cache)])

\* the setInterval callback (index.ts:87-89)
PurgeTimer ==
    /\ Idle
    /\ nextPurge <= now
    /\ nextPurge' = now + PURGE_INTERVAL_MS
    /\ CacheBecomes(purgeStale(Cache))
    /\ Reply(Internal)
    /\ CacheFrame
    /\ UNCHANGED <<now, rateVars, mockUsers, inFlightFetches, queueVars, promiseVars,
                   admitted>>

\* time passes by the cache's TTL (a timer may fire later than it is due)
Tick ==
    /\ Idle
    /\ now + CACHE_TTL_MS <= MaxClock
    /\ now' = now + CACHE_TTL_MS
    /\ Reply(Internal)
    /\ CacheFrame
    /\ CacheSame
    /\ UNCHANGED <<rateVars, mockUsers, inFlightFetches, queueVars, promiseVars,
                   admitted, nextPurge>>

\* the server some time after its start: sender a has made three requests
\* (of GET /) at time 0, two short of its burst allowance
Init ==
    /\ maxSize = CACHE_MAX_SIZE
    /\ ttlMs = CACHE_TTL_MS
    /\ InitCacheVars
    /\ rateLimitMap = [ip \in {"a"} |->
                          [last60s |-> [i \in 1..(BURST_PER_10_SECONDS - 2) |-> 0],
                           last10s |-> [i \in 1..(BURST_PER_10_SECONDS - 2) |-> 0]]]
    /\ lastCheck = Check("new", "", FALSE)
    /\ allowedLog = [ip \in Identities |-> <<>>]
    /\ InitPipeVars

Next ==
    \/ \E req \in PipeSenders, raw \in RawIds : GetUser(req, raw)
    \/ \E t \in running : TimerFires(t)
    \/ ResumeHandler
    \/ \E req \in PipeSenders, body \in PostBodies : CreateUser(req, body)
    \/ \E req \in PipeSenders : ClearCache(req)
    \/ \E req \in PipeSenders : CacheStatus(req)
    \/ PurgeTimer
    \/ Tick

Spec == Init /\ [][Next]_vars

\* the event loop runs every pending continuation and fires every timer
Fairness ==
    /\ WF_vars(ResumeHandler)
    /\ WF_vars(\E t \in running : TimerFires(t))

SpecLive == Init /\ [][Next]_vars /\ Fairness

(***************************************************************************)
(* Properties of the cache                                                 *)
(***************************************************************************)
KeyOrder(m) == [i \in 1..Len(m) |-> m[i].key]

\* nothing can have expired yet: every entry was stored at a time >= 0
NothingExpired == now < ttlMs

\* C1: the cache never holds more entries than its maximum size, whatever
\* calls are made on it and whenever.
CacheCapacity == Cardinality(mapKeys(map)) <= maxSize /\ Len(map) <= maxSize

\* three distinct keys were set into a cache of capacity 2 and it is full
CacheCapacityWitness ==
    /\ maxSize = 2
    /\ scenario # Off
    /\ Len(scenario) = 3
    /\ scenario[3].op = "set"
    /\ lastOp.op = "set"
    /\ Len(map) = maxSize

\* C2: a set of a key that has no entry, on a full cache, removes exactly the
\* least recently used entry (recency: set and live get only); a set of a key
\* that has an entry removes nothing; has, purgeStale and a get that misses
\* leave the relative order of the remaining entries as it was.
EvictsLruStep ==
    /\ lastOp'.op = "set" =>
          LET k == lastOp'.key
          IN  IF mapHas(map, k)
              THEN mapKeys(map') = mapKeys(map)
              ELSE IF Len(map) >= maxSize
                   THEN /\ mapKeys(map') = (mapKeys(map) \ {recency[1]}) \cup {k}
                        /\ Len(map') = Len(map)
                   ELSE mapKeys(map') = mapKeys(map) \cup {k}
    /\ (\/ lastOp'.op \in {"has", "purgeStale"}
        \/ (lastOp'.op = "get" /\ lastOp'.ret = undefined)) =>
          KeyOrder(map') = SelectSeq(KeyOrder(map), LAMBDA k : mapHas(map', k))

EvictsLru == [][EvictsLruStep]_vars

\* set x, set y, get x, set z on a cache of capacity 2: y was evicted although
\* x is the older insertion
EvictsLruWitness ==
    /\ maxSize = 2
    /\ NothingExpired
    /\ \E t \in Distinct3 :
          /\ scenario = ScriptTwo(t[1], t[2], t[3])
          /\ ~mapHas(map, t[2])
          /\ mapHas(map, t[1])

\* C3 as stated: capacity 2, set A, set B, set C, get A, set C: B is evicted
\* and the cache holds A and C.
RecencyScenarioAsStated ==
    (maxSize = 2 /\ NothingExpired) =>
        \A t \in Distinct3 :
            scenario = ScriptThree(t[1], t[2], t[3]) =>
                mapKeys(map) = {t[1], t[3]}

\* C3 amended: capacity 2, set A, set B, get A, set C: B is evicted and the
\* cache holds A and C.  With C also inserted before the get, that insertion
\* evicts A, the get of A misses, and the cache holds B and C.
RecencyScenario ==
    (maxSize = 2 /\ NothingExpired) =>
        \A t \in Distinct3 :
            /\ scenario = ScriptTwo(t[1], t[2], t[3]) =>
                  /\ mapKeys(map) = {t[1], t[3]}
                  /\ getHits = 1
            /\ scenario = ScriptThree(t[1], t[2], t[3]) =>
                  /\ mapKeys(map) = {t[2], t[3]}
                  /\ getHits = 0
                  /\ getMisses = 1

RecencyScenarioWitness ==
    /\ maxSize = 2
    /\ NothingExpired
    /\ \E t \in Distinct3 : scenario = ScriptThree(t[1], t[2], t[3])

\* C4: a get issued ttl or more after the set that stored the entry returns
\* nothing (the boundary now = expiresAt included); a value is returned only
\* to a get issued less than ttl after that set; no call but set changes the
\* expiry of an entry.
TtlInvariant ==
    /\ lastOp.op = "get" =>
          /\ lastOp.age >= ttlMs => lastOp.ret = undefined
          /\ lastOp.ret # undefined => (0 <= lastOp.age /\ lastOp.age < ttlMs)
    /\ \A i \in 1..Len(map) : map[i].expiresAt = setAt[map[i].key] + ttlMs

\* a get exactly at the expiry boundary now = expiresAt
TtlInvariantWitness ==
    /\ lastOp.op = "get"
    /\ lastOp.age = ttlMs
    /\ lastOp.ret = undefined
    /\ ttlMs > 1

\* C9: hits is the number of get calls that returned a value, misses the
\* number of get calls that returned nothing, since construction or the last
\* clear; size is the number of entries; no other call changes hits or misses.
StatsCorrect ==
    /\ stats(Cache).hits = getHits
    /\ stats(Cache).misses = getMisses
    /\ stats(Cache).size = Cardinality(mapKeys(map))

StatsCorrectWitness ==
    /\ getHits >= 1
    /\ getMisses >= 1
    /\ lastOp.op = "has"
    /\ lastOp.ret = FALSE

\* C10: right after clear the statistics are all zero, and a get of a key
\* that had an entry when clear was called, and was not set again since, is a
\* miss: it returns nothing and is counted in misses.
ClearResets ==
    /\ lastOp.op = "clear" => stats(Cache) = [hits |-> 0, misses |-> 0, size |-> 0]
    /\ (lastOp.op = "get" /\ lastOp.key \in clearedKeys) =>
          /\ lastOp.ret = undefined
          /\ stats(Cache).misses = getMisses
          /\ getMisses >= 1

ClearResetsWitness ==
    /\ lastOp.op = "get"
    /\ lastOp.key \in clearedKeys
    /\ NothingExpired
    /\ stats(Cache).misses = 1
    /\ stats(Cache).hits = 0

(***************************************************************************)
(* Properties of the rate limiter                                          *)
(***************************************************************************)
\* the timestamps of log that are at most window old at time t
Within(log, t, window) == SelectSeq(log, LAMBDA x : t - x <= window)

\* C8: a request is allowed exactly when fewer than 10 requests of its
\* identity were allowed in the last 60 s and fewer than 5 in the last 10 s;
\* after the call the two sequences of the identity are the allowed requests
\* within each window (a denied request is not recorded), and the state of
\* the other identities is as it was.
DualWindowStep ==
    lastCheck'.op = "check" =>
        LET ip == lastCheck'.ip
            n60 == Len(Within(allowedLog[ip], now, MINUTE_WINDOW_MS))
            n10 == Len(Within(allowedLog[ip], now, BURST_WINDOW_MS))
        IN  /\ lastCheck'.allowed =
                   (n60 < MAX_PER_MINUTE /\ n10 < BURST_PER_10_SECONDS)
            /\ ~lastCheck'.allowed => allowedLog'[ip] = allowedLog[ip]
            /\ rateLimitMap'[ip].last60s = Within(allowedLog'[ip], now, MINUTE_WINDOW_MS)
            /\ rateLimitMap'[ip].last10s = Within(allowedLog'[ip], now, BURST_WINDOW_MS)
            /\ \A other \in DOMAIN rateLimitMap \ {ip} :
                   rateLimitMap'[other] = rateLimitMap[other]

DualWindow == [][DualWindowStep]_vars

\* the 11th request within 60 s is denied although the burst window has room,
\* while another identity has requests of its own on record
DualWindowWitness ==
    /\ lastCheck.op = "check"
    /\ ~lastCheck.allowed
    /\ Len(rateLimitMap[lastCheck.ip].last60s) = MAX_PER_MINUTE
    /\ Len(rateLimitMap[lastCheck.ip].last10s) < BURST_PER_10_SECONDS
    /\ \E other \in DOMAIN rateLimitMap \ {lastCheck.ip} :
           Len(rateLimitMap[other].last60s) > 0

(***************************************************************************)
(* Properties of the single-flight registry and the fetch queue            *)
(***************************************************************************)
\* the jobs queued or executing
JobsInFlight == {queue[i] : i \in 1..Len(queue)} \cup {t.job : t \in running}

JobsFor(id) == {j \in JobsInFlight : j.userId = id}

\* C5: at most one fetch job per key is queued or executing, and all the
\* lookups of a key that wait for a fetch wait for that one job.
SingleFlight ==
    /\ \A id \in UserIds : Cardinality(JobsFor(id)) <= 1
    /\ \A i \in 1..Len(waiting) :
           JobsFor(waiting[i].id) = {Job(waiting[i].fetchPromise, waiting[i].id)}

\* two lookups of the same key wait while its one job executes
SingleFlightWitness ==
    /\ running # {}
    /\ \E i, j \in 1..Len(waiting) :
           /\ i < j
           /\ waiting[i].id = waiting[j].id
           /\ \E t \in running : t.job.userId = waiting[i].id

\* C6: the lookups that awaited the same fetch all get the same outcome: the
\* value the fetch resolved with (status, source and user), or not-found.
IdenticalOutcome ==
    \A p \in 1..MaxJobs :
        \A i \in 1..Len(delivered[p]) :
            /\ delivered[p][i] = delivered[p][1]
            /\ settled[p] # pending
            /\ delivered[p][i].status = (IF settled[p] = null THEN 404 ELSE 200)
            /\ settled[p] # null => delivered[p][i].data = settled[p]

\* the lookup that started a fetch and one that joined it both got a user
IdenticalOutcomeWitness ==
    \E p \in 1..MaxJobs :
        /\ Len(delivered[p]) >= 2
        /\ delivered[p][2].status = 200

\* C7: at most one job executes at a time, the jobs are started in the order
\* of their enqueue calls, and when a job starts every job enqueued before it
\* has completed.
FifoOrder ==
    /\ Cardinality(running) <= 1
    /\ \A i \in 1..Len(startedLog) : startedLog[i] = i
    /\ \A i \in 1..Len(queue) : queue[i].seq = Len(startedLog) + i
    /\ \A t \in running : \A i \in 1..(t.job.seq - 1) : i \in doneJobs
    /\ \A i \in doneJobs : \E k \in 1..Len(startedLog) : startedLog[k] = i

\* the second job executes after the first completed, the third is queued
FifoOrderWitness ==
    /\ Len(queue) >= 1
    /\ doneJobs # {}
    /\ \E t \in running : t.job.seq > 1 /\ t.job.userId # queue[1].userId

(***************************************************************************)
(* Properties of the server: what is written to the cache                  *)
(***************************************************************************)
\* the cache holds an entry for key that has not expired
Live(m, key) == mapHas(m, key) /\ mapGet(m, key).expiresAt > now

\* the key of the user a step added to mockUsers
CreatedIds == {id \in UserIds : mockUsers'[id] # mockUsers[id]}

\* C11: a handler that resumes after its fetch, and the create path, leave
\* the cache as it is when the key has a live entry: the value and the expiry
\* time of the entry (and every other entry) stay as they were; so an entry
\* written by POST /users while the fetch was pending is not overwritten by
\* any waiter.  The conditional write itself changes no live entry, whatever
\* value it is given.
NoOverwriteStep ==
    /\ microtasks # <<>> =>
          (Live(map, Head(microtasks).id) => map' = map)
    /\ \A id \in CreatedIds : Live(map, id) => map' = map
    /\ \A id \in UserIds : \A v \in {"John Doe", "New User"} :
          Live(map, id) => cacheIfAbsent(Cache, id, v).map = map

NoOverwrite == [][NoOverwriteStep]_vars

\* a waiter has answered from the database for a user that POST /users
\* created and cached while the fetch was pending: the entry still has the
\* expiry time of the create, earlier than a write by the waiter would give
NoOverwriteWitness ==
    /\ lastResponse.route = "GET /users/:id"
    /\ lastResponse.source = "database"
    /\ lastResponse.data = "New User"
    /\ microtasks = <<>>
    /\ Live(map, 4)
    /\ mapGet(map, 4).expiresAt < now + CACHE_TTL_MS

\* the cache as it is after the step
CacheAfter == [map |-> map', hits |-> hits', misses |-> misses']

\* C12: a handler that resumes from a fetch that found no user answers 404
\* and leaves the cache as it was, with no entry for the key; the key is then
\* neither cached nor in inFlightFetches, so that a lookup of it arriving next
\* misses the cache and finds no promise to join (it starts a fetch).
NotFoundNotCachedStep ==
    (microtasks # <<>> /\ settled[Head(microtasks).fetchPromise] = null) =>
        LET k == Head(microtasks).id
        IN  /\ lastResponse'.status = 404
            /\ map' = map /\ hits' = hits /\ misses' = misses
            /\ ~mapHas(map', k)
            /\ get(CacheAfter, k).ret = undefined
            /\ k \notin DOMAIN inFlightFetches'

NotFoundNotCached == [][NotFoundNotCachedStep]_vars

\* two waiters of the first fetch of user 4 were answered 404, the user is
\* still not cached, and a later lookup of user 4 has started a second fetch
NotFoundNotCachedWitness ==
    /\ settled[1] = null
    /\ Len(delivered[1]) >= 2
    /\ delivered[1][2].status = 404
    /\ ~mapHas(map, 4)
    /\ \E j \in JobsInFlight : j.userId = 4 /\ j.seq > 1

\* the step is an admitted request of GET /users/:id (not a resumed handler)
LookupStep == lastResponse'.route = "GET /users/:id" /\ admitted' = admitted + 1

\* the step is the resumed handler answering with the user it fetched
UpstreamAnswerStep ==
    /\ microtasks # <<>>
    /\ lastResponse'.route = "GET /users/:id"
    /\ lastResponse'.status = 200

FetchUntouched ==
    UNCHANGED <<queue, processing, running, jobCount, startedLog,
                inFlightFetches, waiting>>

\* C13: when a handler has answered a lookup with the user it fetched, the
\* cache holds a live entry for the key with that value; a live entry stays,
\* with its value and expiry, through every step other than a clear and the
\* passing of time (nothing is evicted); and an admitted lookup of a key with a
\* live entry is answered with source "cache" and the entry's value, leaving
\* the fetch queue and inFlightFetches as they were: a lookup that has to
\* await a fetch is one whose key has no live entry.
CacheAfterFetchStep ==
    /\ UpstreamAnswerStep =>
          LET k == Head(microtasks).id
          IN  /\ mapHas(map', k)
              /\ mapGet(map', k).expiresAt > now'
              /\ mapGet(map', k).value = lastResponse'.data
              /\ lastResponse'.data = mockUsers[k]
    /\ (now' = now /\ lastResponse'.route # "DELETE /cache") =>
          \A k \in UserIds : Live(map, k) =>
              /\ mapHas(map', k)
              /\ mapGet(map', k) = mapGet(map, k)
    /\ LookupStep =>
          /\ lastResponse'.source = "cache" =>
                /\ lastResponse'.status = 200
                /\ \E k \in UserIds : /\ Live(map, k)
                                      /\ mapGet(map, k).value = lastResponse'.data
                /\ hits' = hits + 1
                /\ FetchUntouched
          /\ lastResponse'.source = "await" =>
                ~Live(map, waiting'[Len(waiting')].id)
          /\ lastResponse'.source \notin {"cache", "await"} =>
                lastResponse'.status = 400

CacheAfterFetch == [][CacheAfterFetchStep]_vars

\* user 1 was fetched and answered with source "database"; a later lookup of
\* user 1 has just been answered with source "cache" and the same value
CacheAfterFetchWitness ==
    /\ lastResponse.route = "GET /users/:id"
    /\ lastResponse.source = "cache"
    /\ lastResponse.data = "John Doe"
    /\ \E p \in 1..MaxJobs : /\ Len(delivered[p]) >= 1
                             /\ delivered[p][1].status = 200
                             /\ delivered[p][1].data = "John Doe"
    /\ jobCount = 1

(***************************************************************************)
(* Properties of the server: inFlightFetches and the fetch queue           *)
(***************************************************************************)
\* C14, as stated: in every state a key is in inFlightFetches if and only
\* if a fetch job for that key is queued or executing.
RegistryMatchesJobsAsStated ==
    \A id \in UserIds : (id \in DOMAIN inFlightFetches) <=> (JobsFor(id) # {})

\* C14, corrected: between the runs of the handlers, a key that has a fetch
\* job queued or executing is in inFlightFetches, registered with the promise
\* of that job;
\* a key in inFlightFetches has a fetch job queued or executing, except from
\* the moment its job has resolved the promise until the first of the awaiting
\* handlers resumes and deletes the entry.  No request handler and no timer
\* callback runs in that interval, so wherever one starts the two agree.
RegistryMatchesJobs ==
    /\ \A id \in UserIds : \A j \in JobsFor(id) :
          id \in DOMAIN inFlightFetches /\ inFlightFetches[id] = j.seq
    /\ \A id \in DOMAIN inFlightFetches :
          JobsFor(id) = {} =>
              /\ microtasks # <<>>
              /\ Head(microtasks) = Handler(id, inFlightFetches[id])
              /\ settled[inFlightFetches[id]] # pending
    /\ Idle => RegistryMatchesJobsAsStated

\* two keys are registered, the job of one executing and of the other queued,
\* after an earlier job has completed and its waiters have resumed
RegistryMatchesJobsWitness ==
    /\ Idle
    /\ Cardinality(DOMAIN inFlightFetches) = 2
    /\ Len(queue) = 1
    /\ running # {}
    /\ doneJobs # {}

\* some key is registered with a promise that has been resolved
StaleEntry ==
    \E id \in DOMAIN inFlightFetches : settled[inFlightFetches[id]] # pending

\* C15: once a fetch has completed (its promise is resolved, with a user or
\* with null), its entry is eventually gone from inFlightFetches; the handler
\* that resumes deletes, for its key, either nothing or the entry of the very
\* promise it awaited, never the entry of a newer fetch of the key, and it
\* leaves the entries of the other keys alone.
RegistryClearedStep ==
    microtasks # <<>> =>
        LET h == Head(microtasks)
        IN  /\ h.id \in DOMAIN inFlightFetches => inFlightFetches[h.id] = h.fetchPromise
            /\ h.id \notin DOMAIN inFlightFetches'
            /\ \A id \in DOMAIN inFlightFetches \ {h.id} :
                  /\ id \in DOMAIN inFlightFetches'
                  /\ inFlightFetches'[id] = inFlightFetches[id]
            /\ JobsFor(h.id) = {}

RegistryCleared ==
    /\ StaleEntry ~> ~StaleEntry
    /\ [][RegistryClearedStep]_vars

\* the first fetch of user 1 completed and was delivered, its entry was
\* removed, and after a miss a second fetch of user 1 is registered and in
\* flight
RegistryClearedWitness ==
    /\ settled[1] = "John Doe"
    /\ Len(delivered[1]) >= 1
    /\ 1 \in DOMAIN inFlightFetches
    /\ inFlightFetches[1] = 2
    /\ JobsFor(1) = {Job(2, 1)}

\* the handlers that await promise p, suspended or about to resume
Awaiting(p) ==
    {i \in 1..Len(waiting) : waiting[i].fetchPromise = p}
        \cup {-i : i \in {j \in 1..Len(microtasks) : microtasks[j].fetchPromise = p}}

\* job p has run and every handler that awaited it has been answered
Completed(p) ==
    /\ p \in doneJobs
    /\ settled[p] # pending
    /\ Awaiting(p) = {}
    /\ Len(delivered[p]) >= 1

\* some job enqueued has not run, or not every handler awaiting it is answered
Unfinished == \E p \in 1..MaxJobs : jobCount >= p /\ ~Completed(p)

QueueSound ==
    /\ processing <=> running # {}
    /\ ~processing => queue = <<>>
    /\ \A i, j \in 1..Len(startedLog) : startedLog[i] = startedLog[j] => i = j
    /\ \A t \in running : /\ t.job.seq \notin doneJobs
                          /\ \E i \in 1..Len(startedLog) : startedLog[i] = t.job.seq
    /\ \A i \in 1..Len(queue) : /\ queue[i].seq \notin doneJobs
                                /\ \A k \in 1..Len(startedLog) : startedLog[k] # queue[i].seq
    /\ \A p \in 1..MaxJobs : p <= jobCount =>
          \/ p \in doneJobs
          \/ \E j \in JobsInFlight : j.seq = p

\* a job is enqueued: a busy worker leaves it at the tail of the queue for its
\* loop, an idle worker takes it up at once; a job that completes hands over
\* to the head of the queue
QueueStep ==
    /\ jobCount' = jobCount + 1 =>
          IF processing
          THEN /\ Len(queue') = Len(queue) + 1
               /\ queue'[Len(queue')].seq = jobCount'
               /\ SubSeq(queue', 1, Len(queue)) = queue
               /\ running' = running /\ processing'
          ELSE /\ queue' = <<>>
               /\ processing'
               /\ \E t \in running' : t.job.seq = jobCount' /\ running' = {t}
    /\ doneJobs' # doneJobs =>
          IF queue # <<>>
          THEN /\ queue' = Tail(queue)
               /\ \E t \in running' : t.job = Head(queue) /\ running' = {t}
               /\ processing'
          ELSE queue' = <<>> /\ running' = {} /\ ~processing'

\* C16: every job enqueued is eventually executed and its result delivered to
\* the handlers awaiting it; it is started once; a job enqueued while the
\* worker is busy is taken up by the running loop and one enqueued while it is
\* idle starts the loop; no job stays in the queue while the worker is idle;
\* the completion of a job does not stop the jobs queued after it.
QueueProgress ==
    /\ Unfinished ~> ~Unfinished
    /\ []QueueSound
    /\ [][QueueStep]_vars

\* the first job has run and been delivered, the second is executing, and the
\* third, enqueued while the worker was busy, waits in the queue
QueueProgressWitness ==
    /\ Completed(1)
    /\ startedLog = <<1, 2>>
    /\ processing
    /\ Len(queue) = 1
    /\ queue[1].seq = 3

(***************************************************************************)
(* Properties of the cache: purgeStale                                     *)
(***************************************************************************)
\* C18: after purgeStale the cache holds no entry that has expired
\* (expiresAt <= now); it holds every entry that has not, with its value and
\* expiry, in the order they were in; it holds nothing else; hits and misses
\* are as before.
PurgeStaleStep ==
    lastOp'.op = "purgeStale" =>
        /\ \A i \in 1..Len(map') : map'[i].expiresAt > now
        /\ \A i \in 1..Len(map) :
              map[i].expiresAt > now => \E j \in 1..Len(map') : map'[j] = map[i]
        /\ \A j \in 1..Len(map') : \E i \in 1..Len(map) : map[i] = map'[j]
        /\ \A i, j \in 1..Len(map') :
              i < j => mapIndex(map, map'[i].key) < mapIndex(map, map'[j].key)
        /\ hits' = hits
        /\ misses' = misses

PurgeStaleCorrect == [][PurgeStaleStep]_vars

\* purgeStale has run on a cache of capacity 2 at a time when an entry stored
\* at time 0 would have expired, and has kept an entry stored later
PurgeStaleCorrectWitness ==
    /\ lastOp.op = "purgeStale"
    /\ maxSize = 2
    /\ now >= ttlMs
    /\ Len(map) = 1
    /\ map[1].expiresAt > now
    /\ hits + misses > 0

(***************************************************************************)
(* Properties of the server: requests that are turned away                 *)
(***************************************************************************)
\* the cache, the registry, the fetch queue, the promises and the database
CoreUntouched ==
    UNCHANGED <<map, hits, misses, inFlightFetches, queue, processing, running,
                jobCount, startedLog, doneJobs, settled, waiting, microtasks,
                delivered, mockUsers>>

\* the step handles a request that arrives (not a timer, not a continuation)
RequestStep == microtasks = <<>> /\ lastResponse'.route \notin {"internal", "start"}

\* ids that parseUserId turns away are nowhere in the core
OnlyValidIds ==
    /\ \A i \in 1..Len(map) : map[i].key > 0
    /\ \A id \in DOMAIN inFlightFetches : id > 0
    /\ \A j \in JobsInFlight : j.userId > 0
    /\ \A i \in 1..Len(waiting) : waiting[i].id > 0
    /\ \A i \in 1..Len(microtasks) : microtasks[i].id > 0

\* C19: a request that the rate limiter denies is answered 429, whatever its
\* key, and a lookup with an invalid key is answered 400; either leaves the
\* cache entries and their order, hits, misses, inFlightFetches and the fetch
\* queue as they were, and no invalid id ever enters them; 429 is neither the
\* 404 of a user not found nor the 400 of an invalid key.
RejectedUntouchedStep ==
    /\ (RequestStep /\ admitted' = admitted) =>
          /\ lastResponse'.status = 429
          /\ lastResponse' # Response("GET /users/:id", 404, "", "")
          /\ CoreUntouched
    /\ lastResponse'.status = 429 => (RequestStep /\ admitted' = admitted)
    /\ (lastResponse'.route = "GET /users/:id" /\ lastResponse'.status = 400) =>
          CoreUntouched

RejectedUntouched == []OnlyValidIds /\ [][RejectedUntouchedStep]_vars

\* a lookup has just been turned away with 429 while a user is cached, a
\* fetch is executing and a handler awaits it
RejectedUntouchedWitness ==
    /\ lastResponse = TooMany("GET /users/:id")
    /\ Len(map) >= 1
    /\ running # {}
    /\ waiting # <<>>
    /\ inFlightFetches # <<>>

(***************************************************************************)
(* Properties of the server: the cache and the database                    *)
(***************************************************************************)
\* C20: every entry of the cache, expired or not, is for a user that mockUsers
\* holds and has that user as its value, in every state: while fetches are
\* pending, after POST /users, after DELETE /cache and after purgeStale.
CacheCoherent ==
    \A i \in 1..Len(map) :
        /\ map[i].key \in UserIds
        /\ mockUsers[map[i].key] # null
        /\ map[i].value = mockUsers[map[i].key]

\* the cache holds user 1, fetched from the database, and user 4, created by
\* POST /users
CacheCoherentWitness ==
    /\ mapHas(map, 1)
    /\ mapHas(map, 4)
    /\ mockUsers[4] = "New User"
    /\ mapGet(map, 4).value = "New User"
    /\ doneJobs # {}

=============================================================================
